---- MODULE Spec2Model ----
(***************************************************************************)
(* Authenticator selection and caching of tap_rest_api_msdk/auth.py.       *)
(*                                                                         *)
(* The client (`self`, a tap or a stream of the SDK) is modelled by its    *)
(* attributes; Python dicts are functions from the keys they hold; Python  *)
(* objects are records with a kind, an identity and their credentials.     *)
(***************************************************************************)
EXTENDS Integers, Sequences, FiniteSets, TLC

VARIABLES
    config,          \* self.config   ("Tap Config" in the source's comments)
    _config,         \* self._config  ("Stream Config" in the source's comments)
    _authenticator,  \* self._authenticator, the cached authenticator
    http_auth,       \* self.http_auth
    aws_connection,  \* self.aws_connection
    logger,          \* what self.logger.error was called with, in order
    environ,         \* os.environ
    token_valid,     \* what is_token_valid() of the SDK's OAuth2 authenticator answers
    next_id,         \* identity given to the next object constructed
    select_calls,    \* number of times select_authenticator was entered
    calls,           \* number of top-level calls made so far
    last,            \* the most recent top-level call: what it was and how it ended
    pc,              \* concurrent callers: where each is in get_authenticator
    local            \* concurrent callers: my_config / auth_method of each

vars == <<config, _config, _authenticator, http_auth, aws_connection, logger,
          environ, token_valid, next_id, select_calls, calls, last, pc, local>>

\* ------------------------------------------------------------------ bounds
MaxCalls == 3
MaxConcCalls == 2

\* ------------------------------------------------------- Python values
\* None in a slot that otherwise holds a string.
None == "None"

\* None in a slot that otherwise holds an object.
NoneObject == [kind |-> "None", id |-> 0, cred |-> <<>>]

\* The empty dict {}.
EmptyDict == <<>>

\* None in a slot that otherwise holds a dict.
NoneDict == [None |-> TRUE]

IsNoneDict(d) == DOMAIN d = {"None"}

\* bool(d) of a dict-or-None.
TruthyDict(d) == ~IsNoneDict(d) /\ DOMAIN d # {}

\* bool(s) of a str-or-None.
Truthy(s) == s # None /\ s # ""

\* bool(o) of an object-or-None: the authenticator classes define neither
\* __bool__ nor __len__.
TruthyObject(o) == o.kind # "None"

\* d.get(k, default)
Get(d, k, default) == IF k \in DOMAIN d THEN d[k] ELSE default

\* a or b
Or(a, b) == IF Truthy(a) THEN a ELSE b

\* all([...]) over str-or-None values
All(seq) == \A i \in 1..Len(seq) : Truthy(seq[i])

\* The element of a one-element set: binds a value that is used several times.
The(S) == CHOOSE x \in S : TRUE

NoExc == [type |-> "None", arg |-> ""]

Exc(type, arg) == [type |-> type, arg |-> arg]

Raised(r) == r.exc.type # "None"

\* ------------------------------------------------ OAuth 1.0 authenticators
\* super().__init__(config) hands a dict to the SDK base class, which is not part
\* of this file: base_ok says whether that call returns.
OAuth1Check_without_token_secret(cfg) ==
    All(<<Get(cfg, "consumer_key", None), Get(cfg, "consumer_secret", None),
          Get(cfg, "access_token", None)>>)

\* `all([self.consumer_key, self.consumer_secret, self.access_token, self.token_secret])`
OAuth1Check(cfg) ==
    All(<<Get(cfg, "consumer_key", None), Get(cfg, "consumer_secret", None),
          Get(cfg, "access_token", None), Get(cfg, "token_secret", None)>>)

OAuth1Init(kind, message, cfg, base_ok, id) ==
    IF ~base_ok
    THEN [exc |-> Exc("AttributeError", "config"), result |-> NoneObject]
    ELSE IF ~OAuth1Check(cfg)
    THEN [exc |-> Exc("ValueError", message), result |-> NoneObject]
    ELSE [exc |-> NoExc,
          result |-> [kind |-> kind, id |-> id,
                      cred |-> <<Get(cfg, "consumer_key", None),
                                 Get(cfg, "consumer_secret", None),
                                 Get(cfg, "access_token", None),
                                 Get(cfg, "token_secret", None)>>]]

ConfigurableOAuthAuthenticator_init(cfg, base_ok, id) ==
    OAuth1Init("ConfigurableOAuthAuthenticator", "incompletas", cfg, base_ok, id)

OAuth1Authenticator_init(cfg, base_ok, id) ==
    OAuth1Init("OAuth1Authenticator", "obrigatorios", cfg, base_ok, id)

\* The keyword arguments select_authenticator passes to
\* ConfigurableOAuthAuthenticator, and the parameters its __init__ declares.
OAuthCallKeywords == {"stream", "auth_endpoint", "oauth_scopes", "default_expiration",
                      "oauth_headers"}

ConfigurableOAuthAuthenticator_params == {"config"}

\* A Python call with keyword arguments the callee does not declare raises
\* TypeError before the body runs.
ConfigurableOAuthAuthenticator_call(keywords, cfg, base_ok, id) ==
    IF ~(keywords \subseteq ConfigurableOAuthAuthenticator_params)
    THEN [exc |-> Exc("TypeError", "unexpected keyword argument"), result |-> NoneObject]
    ELSE IF "config" \notin keywords
    THEN [exc |-> Exc("TypeError", "missing argument config"), result |-> NoneObject]
    ELSE ConfigurableOAuthAuthenticator_init(cfg, base_ok, id)

\* ------------------------------------------------------- AWSConnectClient
NoCredentials == <<>>

NoSession == [kind |-> "None", access_key |-> None, secret_key |-> None,
              region_name |-> None, token |-> None, profile_name |-> None]

\* boto3.session.Session(aws_access_key_id=..., ...)
ExplicitSession(key, secret, region, token) ==
    [kind |-> "explicit", access_key |-> key, secret_key |-> secret,
     region_name |-> region, token |-> token, profile_name |-> None]

\* boto3.session.Session(profile_name=...): key, secret and region come from the
\* profile store, which is outside this file.
ProfileSession(profile) ==
    [kind |-> "profile", access_key |-> "profile-key", secret_key |-> "profile-secret",
     region_name |-> "profile-region", token |-> None, profile_name |-> profile]

\* session.get_credentials()
get_credentials(session) == <<session.access_key, session.secret_key, session.token>>

NoConnection ==
    [connection_config |-> NoneDict, create_signed_credentials |-> TRUE,
     aws_auth |-> NoneObject, region |-> None, credentials |-> NoCredentials,
     aws_service |-> None, aws_session |-> NoSession]

\* The values _create_aws_client reads: config value, else environment variable.
ResolveAws(cfg, env, key, var) == Or(Get(cfg, key, None), Get(env, var, None))

\* Which session _create_aws_client builds.
ChooseSession(aws_access_key_id, aws_secret_access_key, aws_profile, aws_region, aws_session_token) ==
    IF Truthy(aws_access_key_id) /\ Truthy(aws_secret_access_key)
    THEN ExplicitSession(aws_access_key_id, aws_secret_access_key, aws_region,
                         aws_session_token)
    ELSE IF Truthy(aws_profile)
    THEN ProfileSession(aws_profile)
    ELSE NoSession

\* _create_aws_client(self, config=None): the client after it, and what it
\* returned or raised.
_create_aws_client(client, env) ==
    LET cfg == client.connection_config \* `if not config: config = self.connection_config`
    IN  IF IsNoneDict(cfg)
        THEN [exc |-> Exc("AttributeError", "NoneType has no attribute get"),
              client |-> client, credentials |-> NoCredentials]
        ELSE
        LET aws_profile == ResolveAws(cfg, env, "aws_profile", "AWS_PROFILE")
            aws_access_key_id == ResolveAws(cfg, env, "aws_access_key_id", "AWS_ACCESS_KEY_ID")
            aws_secret_access_key ==
                ResolveAws(cfg, env, "aws_secret_access_key", "AWS_SECRET_ACCESS_KEY")
            aws_session_token == ResolveAws(cfg, env, "aws_session_token", "AWS_SESSION_TOKEN")
            aws_region == ResolveAws(cfg, env, "aws_region", "AWS_REGION")
            aws_service == ResolveAws(cfg, env, "aws_service", "AWS_SERVICE")
            signed == IF ~Get(cfg, "create_signed_credentials", TRUE)
                      THEN FALSE ELSE client.create_signed_credentials
            session == ChooseSession(aws_access_key_id, aws_secret_access_key, aws_profile,
                                     aws_region, aws_session_token)
            c1 == [client EXCEPT !.aws_service = aws_service,
                                 !.create_signed_credentials = signed,
                                 !.aws_session = session]
        IN  IF session.kind # "None"
            THEN [exc |-> NoExc, client |-> [c1 EXCEPT !.region = session.region_name],
                  credentials |-> get_credentials(session)]
            ELSE [exc |-> NoExc, client |-> c1, credentials |-> NoCredentials]

\* _store_aws4auth_credentials(self)
_store_aws4auth_credentials(client, id) ==
    IF client.create_signed_credentials /\ client.credentials # NoCredentials
    THEN [client EXCEPT !.aws_auth =
            [kind |-> "AWS4Auth", id |-> id,
             cred |-> <<client.credentials[1], client.credentials[2], client.region,
                        client.aws_service, client.credentials[3]>>]]
    ELSE [client EXCEPT !.aws_auth = NoneObject]

\* AWSConnectClient.__init__(connection_config, create_signed_credentials=True)
AWSConnectClient(connection_config, env, id) ==
    LET c0 == [NoConnection EXCEPT !.connection_config = connection_config]
        r  == _create_aws_client(c0, env)
    IN  IF Raised(r)
        THEN [exc |-> r.exc, client |-> NoConnection]
        ELSE [exc |-> NoExc,
              client |-> _store_aws4auth_credentials(
                            [r.client EXCEPT !.credentials = r.credentials], id)]

\* get_awsauth(self)
get_awsauth(client) == client.aws_auth

\* ------------------------------------------------------ SDK authenticators
\* APIKeyAuthenticator, BasicAuthenticator and BearerTokenAuthenticator take any
\* strings; APIAuthenticatorBase(stream=self) is the default pass-through.
APIKeyAuthenticator(key, value, id) ==
    [kind |-> "APIKeyAuthenticator", id |-> id, cred |-> <<key, value>>]

BasicAuthenticator(username, password, id) ==
    [kind |-> "BasicAuthenticator", id |-> id, cred |-> <<username, password>>]

BearerTokenAuthenticator(token, id) ==
    [kind |-> "BearerTokenAuthenticator", id |-> id, cred |-> <<token>>]

APIAuthenticatorBase(id) ==
    [kind |-> "APIAuthenticatorBase", id |-> id, cred |-> <<>>]

\* The SDK's OAuth2 authenticator (imported at line 13), the only class with
\* is_token_valid(): an instance the framework has put in the cache.
SdkOAuthAuthenticator == [kind |-> "OAuthAuthenticator", id |-> 0, cred |-> <<>>]

\* ---------------------------------------------------------------- the client
\* `if self.config: ... elif self._config: ...`: which attribute my_config is
\* bound to, or "unbound" when the dicts are both empty.
resolve_config_stream_first(self) ==
    IF TruthyDict(self._config) THEN "_config"
    ELSE IF TruthyDict(self.config) THEN "config"
    ELSE "unbound"

resolve_config(self) ==
    IF TruthyDict(self.config) THEN "config"
    ELSE IF TruthyDict(self._config) THEN "_config"
    ELSE "unbound"

ConfigOf(self, which) == IF which = "config" THEN self.config ELSE self._config

\* The for loop over api_keys.items(): key and value of the last entry.
LastItem(api_keys) == api_keys[Len(api_keys)]

\* select_authenticator(self): the client after the call, what it returned or
\* raised, and the attribute its settings were read from.
select_authenticator(self, env) ==
    LET which == resolve_config(self)
        s0 == [self EXCEPT !.select_calls = @ + 1]
        id == self.next_id
        Return(s, obj) == [self |-> s, exc |-> NoExc, result |-> obj, used |-> which]
        Raise(s, e) == [self |-> s, exc |-> e, result |-> NoneObject, used |-> which]
        New(s) == [s EXCEPT !.next_id = @ + 1]
    IN  IF which = "unbound"
        THEN Raise(s0, Exc("UnboundLocalError", "my_config"))
        ELSE
        LET my_config == ConfigOf(self, which)
            auth_method == Get(my_config, "auth_method", "")
            api_keys == Get(my_config, "api_keys", <<>>)
            s1 == [s0 EXCEPT !.http_auth = NoneObject]
        IN  IF auth_method = "api_key"
            THEN IF api_keys = <<>>
                 THEN Raise(s1, Exc("UnboundLocalError", "key"))
                 ELSE Return(New(s1), APIKeyAuthenticator(LastItem(api_keys)[1],
                                                          LastItem(api_keys)[2], id))
            ELSE IF auth_method = "basic"
            THEN Return(New(s1), BasicAuthenticator(Get(my_config, "username", ""),
                                                    Get(my_config, "password", ""), id))
            ELSE IF auth_method = "oauth"
            THEN LET r == ConfigurableOAuthAuthenticator_call(OAuthCallKeywords,
                                                              EmptyDict, TRUE, id)
                 IN  IF Raised(r) THEN Raise(s1, r.exc) ELSE Return(New(s1), r.result)
            ELSE IF auth_method = "bearer_token"
            THEN Return(New(s1), BearerTokenAuthenticator(Get(my_config, "bearer_token", ""),
                                                          id))
            ELSE IF auth_method = "aws"
            THEN LET r == AWSConnectClient(Get(my_config, "aws_credentials", NoneDict),
                                           env, id)
                 IN  IF Raised(r)
                     THEN Raise(s1, r.exc)
                     ELSE Return([s1 EXCEPT !.aws_connection = r.client,
                                            !.http_auth = get_awsauth(r.client),
                                            !.next_id = IF TruthyObject(r.client.aws_auth)
                                                        THEN @ + 1 ELSE @],
                                 get_awsauth(r.client))
            ELSE IF auth_method # "no_auth"
            THEN Raise([s1 EXCEPT !.logger = Append(@, auth_method)],
                       Exc("ValueError", auth_method))
            ELSE Return(s1, NoneObject)

\* is_token_valid() of the cached authenticator.
is_token_valid(auth, valid) ==
    IF auth.kind = "OAuthAuthenticator"
    THEN [exc |-> NoExc, valid |-> valid]
    ELSE [exc |-> Exc("AttributeError", "is_token_valid"), valid |-> FALSE]

\* get_authenticator, lines 310-317: bind my_config, read auth_method, clear
\* http_auth. The result is the frame of the call: the client, the exception
\* raised if any, and the locals.
ga_start(self) ==
    LET which == resolve_config(self)
    IN  IF which = "unbound"
        THEN [self |-> self, exc |-> Exc("UnboundLocalError", "my_config"),
              used |-> which, auth_method |-> None, refresh |-> FALSE]
        ELSE [self |-> [self EXCEPT !.http_auth = NoneObject], exc |-> NoExc,
              used |-> which,
              auth_method |-> Get(ConfigOf(self, which), "auth_method", None),
              refresh |-> FALSE]

\* line 319
ga_cache_empty(self) == ~TruthyObject(self._authenticator)

\* lines 320-323 with the selector's exception swallowed and the default installed
ga_fill_with_fallback(r) ==
    IF Raised(r) \/ ~TruthyObject(r.result)
    THEN [self |-> [r.self EXCEPT !._authenticator = APIAuthenticatorBase(r.self.next_id),
                                  !.next_id = @ + 1],
          exc |-> NoExc]
    ELSE [self |-> [r.self EXCEPT !._authenticator = r.result], exc |-> NoExc]

\* lines 320-323, given what select_authenticator did
ga_fill_with(r) ==
    IF Raised(r)
    THEN [self |-> r.self, exc |-> r.exc]
    ELSE IF TruthyObject(r.result)
    THEN [self |-> [r.self EXCEPT !._authenticator = r.result], exc |-> NoExc]
    ELSE [self |-> [r.self EXCEPT !._authenticator = APIAuthenticatorBase(r.self.next_id),
                                  !.next_id = @ + 1],
          exc |-> NoExc]

\* lines 320-323
ga_fill(self, env) == The({ ga_fill_with(r) : r \in {select_authenticator(self, env)} })

\* lines 324-325: whether line 327 is to run.
ga_token_check(self, auth_method, valid) ==
    IF auth_method = "oauth"
    THEN LET v == is_token_valid(self._authenticator, valid)
         IN  [exc |-> v.exc, refresh |-> ~Raised(v) /\ ~v.valid]
    ELSE [exc |-> NoExc, refresh |-> FALSE]

\* line 327, given what select_authenticator did
ga_refresh_with(r) ==
    IF Raised(r)
    THEN [self |-> r.self, exc |-> r.exc]
    ELSE [self |-> [r.self EXCEPT !._authenticator = r.result], exc |-> NoExc]

\* line 327
ga_refresh(self, env) == The({ ga_refresh_with(r) : r \in {select_authenticator(self, env)} })

\* lines 328-330, without the assignment
ga_aws_skipped(self, auth_method) == self

\* lines 328-330
ga_aws(self, auth_method) ==
    IF auth_method = "aws"
    THEN [self EXCEPT !.http_auth = self._authenticator]
    ELSE self

\* The frame after lines 319-323.
ga_line319(fr, env) ==
    IF Raised(fr) \/ ~ga_cache_empty(fr.self) THEN fr
    ELSE The({ [fr EXCEPT !.self = f.self, !.exc = f.exc] : f \in {ga_fill(fr.self, env)} })

\* The frame after lines 324-325.
ga_line324(fr, valid) ==
    IF Raised(fr) THEN fr
    ELSE The({ [fr EXCEPT !.exc = t.exc, !.refresh = t.refresh]
               : t \in {ga_token_check(fr.self, fr.auth_method, valid)} })

\* The frame after line 327.
ga_line327(fr, env) ==
    IF Raised(fr) \/ ~fr.refresh THEN fr
    ELSE The({ [fr EXCEPT !.self = g.self, !.exc = g.exc] : g \in {ga_refresh(fr.self, env)} })

\* The frame after lines 328-330.
ga_line328(fr) ==
    IF Raised(fr) THEN fr
    ELSE [fr EXCEPT !.self = ga_aws(fr.self, fr.auth_method)]

\* get_authenticator(self), start to end.
get_authenticator(self, env, valid) ==
    The({ The({ The({ The({ ga_line328(g) : g \in {ga_line327(t, env)} })
                      : t \in {ga_line324(f, valid)} })
                : f \in {ga_line319(a, env)} })
          : a \in {ga_start(self)} })

\* ------------------------------------------------------------------ inputs
\* aws_credentials dicts.
AwsCredentialDicts ==
    { EmptyDict,
      ("aws_access_key_id" :> "AKIA") @@ ("aws_secret_access_key" :> "secret"),
      ("aws_profile" :> "dev"),
      ("aws_access_key_id" :> "AKIA") @@ ("aws_secret_access_key" :> "secret")
          @@ ("aws_profile" :> "dev") @@ ("aws_region" :> "us-east-1")
          @@ ("aws_service" :> "es"),
      ("aws_access_key_id" :> "AKIA") @@ ("aws_profile" :> "dev"),
      ("aws_access_key_id" :> "AKIA") @@ ("aws_secret_access_key" :> "secret")
          @@ ("create_signed_credentials" :> FALSE) }

\* Dicts the OAuth 1.0 constructors are given: every subset of the four fields,
\* and one with an empty value.
OAuth1Keys == {"consumer_key", "consumer_secret", "access_token", "token_secret"}

OAuth1Configs ==
    { [k \in K |-> "x"] : K \in SUBSET OAuth1Keys }
    \cup { [k \in OAuth1Keys |-> IF k = "token_secret" THEN "" ELSE "x"] }

\* self.config
TapConfigs ==
    { EmptyDict,
      ("username" :> "u"),
      ("auth_method" :> ""),
      ("auth_method" :> "no_auth"),
      ("auth_method" :> "none"),
      ("auth_method" :> "carrier_pigeon"),
      ("auth_method" :> "oauth1") @@ [k \in OAuth1Keys |-> "x"],
      ("auth_method" :> "api_key") @@ ("api_keys" :> << <<"k1", "v1">> >>),
      ("auth_method" :> "api_key") @@ ("api_keys" :> << <<"k1", "v1">>, <<"k2", "v2">> >>),
      ("auth_method" :> "api_key"),
      ("auth_method" :> "basic") @@ ("username" :> "u") @@ ("password" :> "p"),
      ("auth_method" :> "basic"),
      ("auth_method" :> "bearer_token") @@ ("bearer_token" :> "abc"),
      ("auth_method" :> "oauth") @@ ("access_token_url" :> "https://idp/token")
          @@ ("scope" :> "read") @@ ("oauth_expiration_secs" :> "3600"),
      ("auth_method" :> "aws") }
    \cup { ("auth_method" :> "aws") @@ ("aws_credentials" :> d) : d \in AwsCredentialDicts }

\* self._config
StreamConfigs ==
    { EmptyDict,
      ("auth_method" :> "bearer_token") @@ ("bearer_token" :> "stream-token"),
      ("auth_method" :> "aws") @@ ("aws_credentials" :> EmptyDict),
      ("auth_method" :> "oauth") @@ ("access_token_url" :> "https://idp/token") }

\* os.environ
Environments ==
    { EmptyDict,
      ("AWS_ACCESS_KEY_ID" :> "ENVKEY") @@ ("AWS_SECRET_ACCESS_KEY" :> "envsecret"),
      ("AWS_PROFILE" :> "envprofile"),
      ("AWS_ACCESS_KEY_ID" :> "ENVKEY") @@ ("AWS_SECRET_ACCESS_KEY" :> "envsecret")
          @@ ("AWS_PROFILE" :> "envprofile"),
      ("AWS_SECRET_ACCESS_KEY" :> "envsecret") }

Callers == {1, 2}

\* ------------------------------------------------------------- state machine
Self ==
    [config |-> config, _config |-> _config, _authenticator |-> _authenticator,
     http_auth |-> http_auth, aws_connection |-> aws_connection, logger |-> logger,
     next_id |-> next_id, select_calls |-> select_calls]

\* The attributes of `self` after an operation.
Store(s) ==
    /\ _authenticator' = s._authenticator
    /\ http_auth' = s.http_auth
    /\ aws_connection' = s.aws_connection
    /\ logger' = s.logger
    /\ next_id' = s.next_id
    /\ select_calls' = s.select_calls
    /\ UNCHANGED <<config, _config>>

NoCall == [op |-> "none", exc |-> NoExc, result |-> NoneObject, used |-> "unbound",
           arg |-> EmptyDict]

NoLocal == [used |-> "unbound", auth_method |-> None]

\* The auth_method the client's configuration resolves to ("" when there is none).
ConfiguredMethod ==
    LET dicts == [config |-> config, _config |-> _config]
    IN  IF resolve_config(dicts) = "unbound" THEN ""
        ELSE Get(ConfigOf(dicts, resolve_config(dicts)), "auth_method", "")

\* The client as the framework hands it over: its two configuration dicts, an
\* empty cache or, for oauth, the SDK's OAuth2 authenticator already in it
\* ("If the authenticator already exists, use the cached Authenticator").
Init ==
    /\ config \in TapConfigs
    /\ _config \in StreamConfigs
    /\ environ \in Environments
    /\ _authenticator \in {NoneObject, SdkOAuthAuthenticator}
    /\ _authenticator = SdkOAuthAuthenticator => ConfiguredMethod = "oauth"
    /\ http_auth = NoneObject
    /\ aws_connection = NoConnection
    /\ logger = <<>>
    /\ token_valid = TRUE
    /\ next_id = 1
    /\ select_calls = 0
    /\ calls = 0
    /\ last = NoCall
    /\ pc = [c \in Callers |-> "idle"]
    /\ local = [c \in Callers |-> NoLocal]

\* select_authenticator(self), called on its own.
SelectAuthenticator ==
    /\ calls < MaxCalls
    /\ \E r \in {select_authenticator(Self, environ)} :
           /\ Store(r.self)
           /\ last' = [op |-> "select_authenticator", exc |-> r.exc, result |-> r.result,
                       used |-> r.used, arg |-> EmptyDict]
    /\ calls' = calls + 1
    /\ UNCHANGED <<environ, token_valid, pc, local>>

\* get_authenticator(self), by a single caller.
GetAuthenticator ==
    /\ calls < MaxCalls
    /\ \E r \in {get_authenticator(Self, environ, token_valid)} :
           /\ Store(r.self)
           /\ last' = [op |-> "get_authenticator", exc |-> r.exc, result |-> NoneObject,
                       used |-> r.used, arg |-> EmptyDict]
    /\ calls' = calls + 1
    /\ UNCHANGED <<environ, token_valid, pc, local>>

\* The clock passes the cached OAuth2 token's expiry.
TokenExpires ==
    /\ _authenticator.kind = "OAuthAuthenticator"
    /\ token_valid
    /\ token_valid' = FALSE
    /\ UNCHANGED <<config, _config, _authenticator, http_auth, aws_connection, logger,
                   environ, next_id, select_calls, calls, last, pc, local>>

\* OAuth1Authenticator(config), as at line 209.
NewOAuth1Authenticator ==
    /\ calls < MaxCalls
    /\ \E cfg \in OAuth1Configs, base_ok \in BOOLEAN :
         LET r == OAuth1Authenticator_init(cfg, base_ok, next_id)
         IN  /\ last' = [op |-> "OAuth1Authenticator", exc |-> r.exc, result |-> r.result,
                         used |-> "unbound", arg |-> cfg]
             /\ next_id' = IF Raised(r) THEN next_id ELSE next_id + 1
    /\ calls' = calls + 1
    /\ UNCHANGED <<config, _config, _authenticator, http_auth, aws_connection, logger,
                   environ, token_valid, select_calls, pc, local>>

\* ConfigurableOAuthAuthenticator(config)
NewConfigurableOAuthAuthenticator ==
    /\ calls < MaxCalls
    /\ \E cfg \in OAuth1Configs, base_ok \in BOOLEAN :
         LET r == ConfigurableOAuthAuthenticator_call({"config"}, cfg, base_ok, next_id)
         IN  /\ last' = [op |-> "ConfigurableOAuthAuthenticator", exc |-> r.exc,
                         result |-> r.result, used |-> "unbound", arg |-> cfg]
             /\ next_id' = IF Raised(r) THEN next_id ELSE next_id + 1
    /\ calls' = calls + 1
    /\ UNCHANGED <<config, _config, _authenticator, http_auth, aws_connection, logger,
                   environ, token_valid, select_calls, pc, local>>

Next ==
    \/ SelectAuthenticator
    \/ GetAuthenticator
    \/ TokenExpires

Spec == Init /\ [][Next]_vars

\* ------------------------------------------- the OAuth 1.0 constructors alone
InitOAuth1 ==
    /\ Init
    /\ config = EmptyDict
    /\ _config = EmptyDict
    /\ environ = EmptyDict

NextOAuth1 ==
    \/ NewOAuth1Authenticator
    \/ NewConfigurableOAuthAuthenticator

SpecOAuth1 == InitOAuth1 /\ [][NextOAuth1]_vars

\* ------------------------------- callers sharing one client, interleaved
\* A caller's return from get_authenticator, normally or by an exception.
Leave(c, exc) ==
    /\ pc' = [pc EXCEPT ![c] = "idle"]
    /\ local' = [local EXCEPT ![c] = NoLocal]
    /\ last' = [op |-> "get_authenticator", exc |-> exc, result |-> NoneObject,
                used |-> local[c].used, arg |-> EmptyDict]

Goto(c, label) ==
    /\ pc' = [pc EXCEPT ![c] = label]
    /\ UNCHANGED <<local, last>>

\* lines 310-317
Enter(c) ==
    /\ pc[c] = "idle"
    /\ calls < MaxConcCalls
    /\ calls' = calls + 1
    /\ \E fr \in {ga_start(Self)} :
         /\ Store(fr.self)
         /\ IF Raised(fr)
            THEN /\ last' = [op |-> "get_authenticator", exc |-> fr.exc,
                             result |-> NoneObject, used |-> fr.used, arg |-> EmptyDict]
                 /\ UNCHANGED <<pc, local>>
            ELSE /\ pc' = [pc EXCEPT ![c] = "l319"]
                 /\ local' = [local EXCEPT ![c] = [used |-> fr.used,
                                                  auth_method |-> fr.auth_method]]
                 /\ UNCHANGED last
    /\ UNCHANGED <<environ, token_valid>>

\* line 319
CheckCache(c) ==
    /\ pc[c] = "l319"
    /\ Goto(c, IF ga_cache_empty(Self) THEN "l320" ELSE "l324")
    /\ UNCHANGED <<config, _config, _authenticator, http_auth, aws_connection, logger,
                   environ, token_valid, next_id, select_calls, calls>>

\* lines 320-323
Fill(c) ==
    /\ pc[c] = "l320"
    /\ \E r \in {ga_fill(Self, environ)} :
         /\ Store(r.self)
         /\ IF Raised(r) THEN Leave(c, r.exc) ELSE Goto(c, "l324")
    /\ UNCHANGED <<environ, token_valid, calls>>

\* lines 324-325
CheckToken(c) ==
    /\ pc[c] = "l324"
    /\ \E t \in {ga_token_check(Self, local[c].auth_method, token_valid)} :
         IF Raised(t) THEN Leave(c, t.exc)
         ELSE Goto(c, IF t.refresh THEN "l327" ELSE "l328")
    /\ UNCHANGED <<config, _config, _authenticator, http_auth, aws_connection, logger,
                   environ, token_valid, next_id, select_calls, calls>>

\* line 327
Refresh(c) ==
    /\ pc[c] = "l327"
    /\ \E r \in {ga_refresh(Self, environ)} :
         /\ Store(r.self)
         /\ IF Raised(r) THEN Leave(c, r.exc) ELSE Goto(c, "l328")
    /\ UNCHANGED <<environ, token_valid, calls>>

\* lines 328-330 and the return
SetHttpAuth(c) ==
    /\ pc[c] = "l328"
    /\ Store(ga_aws(Self, local[c].auth_method))
    /\ Leave(c, NoExc)
    /\ UNCHANGED <<environ, token_valid, calls>>

NextConc ==
    \/ \E c \in Callers : Enter(c)
    \/ \E c \in Callers : CheckCache(c)
    \/ \E c \in Callers : Fill(c)
    \/ \E c \in Callers : CheckToken(c)
    \/ \E c \in Callers : Refresh(c)
    \/ \E c \in Callers : SetHttpAuth(c)
    \/ TokenExpires

SpecConc == Init /\ [][NextConc]_vars

\* ------------------------------------------------------------------ claims
\* The dict the most recent call read its settings from.
LastConfig == IF last.used = "config" THEN config ELSE _config

LastBound == last.used # "unbound"

\* auth_method as the most recent call read it.
LastMethod == Get(LastConfig, "auth_method", "")

\* The auth_method values the specification enumerates.
EnumeratedMethods == {"none", "api_key", "basic", "bearer_token", "oauth", "oauth1", "aws"}

\* The fields each enumerated method requires.
RequiredFieldsPresent(cfg) ==
    LET m == Get(cfg, "auth_method", "")
    IN  /\ m = "api_key" => Get(cfg, "api_keys", <<>>) # <<>>
        /\ m = "basic" => {"username", "password"} \subseteq DOMAIN cfg
        /\ m = "bearer_token" => "bearer_token" \in DOMAIN cfg
        /\ m = "oauth" => "access_token_url" \in DOMAIN cfg
        /\ m = "oauth1" => \A k \in OAuth1Keys : Truthy(Get(cfg, k, None))
        /\ m = "aws" => "aws_credentials" \in DOMAIN cfg

\* The kinds of object that are the strategy designated for a method (for aws,
\* the signer, or None when no credentials resolve).
DesignatedKinds(m) ==
    CASE m = "none" -> {"None"}
      [] m = "api_key" -> {"APIKeyAuthenticator"}
      [] m = "basic" -> {"BasicAuthenticator"}
      [] m = "bearer_token" -> {"BearerTokenAuthenticator"}
      [] m = "oauth" -> {"OAuthAuthenticator", "ConfigurableOAuthAuthenticator"}
      [] m = "oauth1" -> {"OAuth1Authenticator"}
      [] m = "aws" -> {"AWS4Auth", "None"}
      [] OTHER -> {}

\* C1: for every enumerated auth_method whose required fields are present,
\* select_authenticator completes without failing and returns the strategy
\* designated for that value.
C1_EveryEnumeratedMethodSelectsItsStrategy ==
    (/\ last.op = "select_authenticator"
     /\ LastBound
     /\ LastMethod \in EnumeratedMethods
     /\ RequiredFieldsPresent(LastConfig))
    => /\ last.exc = NoExc
       /\ last.result.kind \in DesignatedKinds(LastMethod)

\* C2: with no auth_method key in the configuration, select_authenticator does
\* not fail and returns None, and get_authenticator installs the default
\* pass-through authenticator in the cache.
C2_AbsentMethodIsPassThrough ==
    (/\ last.op \in {"select_authenticator", "get_authenticator"}
     /\ LastBound
     /\ "auth_method" \notin DOMAIN LastConfig)
    => /\ last.exc = NoExc
       /\ last.op = "select_authenticator" => last.result = NoneObject
       /\ last.op = "get_authenticator" => _authenticator.kind = "APIAuthenticatorBase"

\* What C3 asks of a call made with an unsupported auth_method: the selector
\* raises the unknown-method error naming the value, after logging it, and
\* returns no handle; through get_authenticator the cache stays empty.
UnknownMethodFailure ==
    /\ last.exc = Exc("ValueError", LastMethod)
    /\ last.result = NoneObject
    /\ logger # <<>> /\ logger[Len(logger)] = LastMethod
    /\ last.op = "get_authenticator" => _authenticator = NoneObject

\* C3 (as claimed): every non-empty auth_method outside the supported set makes
\* select_authenticator fail with the unknown-method error, and get_authenticator
\* on an empty cache propagate it and leave the cache empty.
C3_UnsupportedMethodFails ==
    (/\ last.op \in {"select_authenticator", "get_authenticator"}
     /\ LastBound
     /\ LastMethod # ""
     /\ LastMethod \notin EnumeratedMethods)
    => UnknownMethodFailure

\* C3 (amended): the same for every non-empty auth_method outside the supported
\* set other than "no_auth", which the selector accepts and answers with None.
C3_UnsupportedMethodOtherThanNoAuthFails ==
    (/\ last.op \in {"select_authenticator", "get_authenticator"}
     /\ LastBound
     /\ LastMethod # ""
     /\ LastMethod \notin EnumeratedMethods \cup {"no_auth"})
    => UnknownMethodFailure

C3_Witness ==
    /\ last.op = "get_authenticator"
    /\ LastMethod = "carrier_pigeon"
    /\ last.exc = Exc("ValueError", "carrier_pigeon")
    /\ _authenticator = NoneObject
    /\ select_calls > 0

\* C4: on a filled cache, a get_authenticator call re-invokes the selector
\* exactly when auth_method is oauth and the cached token has expired, and then
\* replaces the cached authenticator by the newly selected instance; in every
\* other case the selector is not called and the cached instance is kept.
C4_RefreshOnlyOnExpiredOAuth ==
    [][ (/\ calls' = calls + 1
         /\ last'.op = "get_authenticator"
         /\ TruthyObject(_authenticator))
        => IF ConfiguredMethod = "oauth" /\ ~token_valid
           THEN /\ select_calls' = select_calls + 1
                /\ TruthyObject(_authenticator')
                /\ _authenticator' # _authenticator
           ELSE /\ select_calls' = select_calls
                /\ _authenticator' = _authenticator ]_vars

\* C5: two callers sharing the client never both hold an observation of the
\* expired cached token that sends each of them into its own re-selection: of
\* concurrent callers, one performs the refresh.
C5_OneRefreshForConcurrentCallers ==
    \A c1, c2 \in Callers : c1 # c2 => ~(pc[c1] = "l327" /\ pc[c2] = "l327")

\* What is resolvable for the aws path from the configuration or the environment.
AwsResolvable(key, var) ==
    \/ Truthy(Get(Get(LastConfig, "aws_credentials", EmptyDict), key, None))
    \/ Truthy(Get(environ, var, None))

PairResolvable ==
    /\ AwsResolvable("aws_access_key_id", "AWS_ACCESS_KEY_ID")
    /\ AwsResolvable("aws_secret_access_key", "AWS_SECRET_ACCESS_KEY")

ProfileResolvable == AwsResolvable("aws_profile", "AWS_PROFILE")

LastSelectedAws ==
    /\ last.op = "select_authenticator"
    /\ LastBound
    /\ LastMethod = "aws"

\* C6: whenever both an access-key/secret pair and a profile are resolvable, the
\* session is built from the explicit pair and no profile session is built.
C6_ExplicitPairBeatsProfile ==
    (LastSelectedAws /\ PairResolvable /\ ProfileResolvable)
    => aws_connection.aws_session.kind = "explicit"

\* C7: on the aws path, when neither a pair nor a profile is resolvable, the
\* result is a null signer and no error is raised.
C7_NoCredentialsGiveNullSigner ==
    (LastSelectedAws /\ ~PairResolvable /\ ~ProfileResolvable)
    => /\ last.exc = NoExc
       /\ last.result = NoneObject

\* The four OAuth 1.0 credentials are all there and none is empty.
CompleteOAuth1(cfg) == \A k \in OAuth1Keys : k \in DOMAIN cfg /\ cfg[k] # ""

OAuth1Kinds == {"OAuth1Authenticator", "ConfigurableOAuthAuthenticator"}

\* C8: constructing an OAuth 1.0 authenticator with any of the four credentials
\* missing or empty fails in the constructor, so no OAuth 1.0 authenticator
\* with incomplete credentials exists.
C8_IncompleteOAuth1FailsAtConstruction ==
    /\ (last.op \in OAuth1Kinds /\ ~CompleteOAuth1(last.arg))
       => (Raised(last) /\ last.result = NoneObject)
    /\ \A o \in {last.result, _authenticator, http_auth} :
         o.kind \in OAuth1Kinds => \A i \in 1..Len(o.cred) : o.cred[i] \notin {None, ""}

C8_Witness ==
    /\ last.op = "OAuth1Authenticator"
    /\ DOMAIN last.arg = OAuth1Keys \ {"token_secret"}
    /\ last.exc = Exc("ValueError", "obrigatorios")

\* The kind of authenticator a configuration's auth_method stands for.
KindFor(cfg) ==
    LET k == DesignatedKinds(Get(cfg, "auth_method", ""))
    IN  IF k = {} THEN {"None"} ELSE k

LastRead == last.op \in {"select_authenticator", "get_authenticator"}

\* C9 (as claimed): both functions read the stream-level configuration whenever
\* it is present and the top-level one only when the stream-level one is absent.
C9_StreamConfigFirst ==
    LastRead =>
        /\ TruthyDict(_config) => last.used = "_config"
        /\ (~TruthyDict(_config) /\ TruthyDict(config)) => last.used = "config"

\* C9 (amended): both functions read the top-level (tap) configuration
\* self.config whenever it is non-empty and the stream-level self._config only
\* when the top-level one is empty; what select_authenticator returns is the
\* authenticator of the dict so chosen.
C9_TapConfigFirst ==
    LastRead =>
        /\ TruthyDict(config) => last.used = "config"
        /\ (~TruthyDict(config) /\ TruthyDict(_config)) => last.used = "_config"
        /\ (last.op = "select_authenticator" /\ last.exc = NoExc /\ TruthyDict(config)
            /\ TruthyObject(last.result))
           => last.result.kind \in KindFor(config)

C9_Witness ==
    /\ last.op = "select_authenticator"
    /\ Get(config, "auth_method", "") = "basic"
    /\ Get(_config, "auth_method", "") = "bearer_token"
    /\ last.used = "config"
    /\ last.result.kind = "BasicAuthenticator"

\* C10: after every get_authenticator call that returns normally the cache is
\* non-null, http_auth is non-null only if auth_method is aws, and for aws
\* http_auth is the cached authenticator itself.
C10_CacheAndHttpAuthAfterGet ==
    (last.op = "get_authenticator" /\ last.exc = NoExc)
    => /\ TruthyObject(_authenticator)
       /\ TruthyObject(http_auth) => LastMethod = "aws"
       /\ LastMethod = "aws" => http_auth = _authenticator

C10_Witness ==
    /\ last.op = "get_authenticator"
    /\ last.exc = NoExc
    /\ LastMethod = "aws"
    /\ _authenticator.kind = "APIAuthenticatorBase"
    /\ http_auth = _authenticator
    /\ calls = MaxCalls

====
